---- MODULE Spec2Model ----
(***************************************************************************)
(* A model of music.py: the interactive tool that asks the operator for    *)
(* one song, appends it to metadata.json and folds its categorical values  *)
(* into filters.json.                                                      *)
(*                                                                         *)
(* Text is a sequence of one-character strings, so that strip, split,      *)
(* isdigit, int and the ordering used by sorted are computed character by  *)
(* character.  The two CDN roots are kept as one fragment each: they are   *)
(* only ever concatenated.  A Python value (None, int, str, list, dict) is *)
(* a record [t, s, n, items] of its type, text, number and elements; a     *)
(* file is the sequence of JSON tokens json.dump wrote into it, and        *)
(* json.load parses that sequence again.                                   *)
(***************************************************************************)
EXTENDS Integers, Sequences, FiniteSets

----------------------------------------------------------------------------
(* Characters and their order.                                             *)

\* The characters the model types, in code point order (str comparison is
\* by code point).  The last one is SUPERSCRIPT TWO (U+00B2).
CodeOrder ==
  << " ", "+", ",", "-", ".",
     "0", "1", "2", "3", "4", "5", "6", "7", "8", "9",
     "A", "B", "C", "D", "E", "F", "G", "H", "I", "J", "K", "L", "M",
     "N", "O", "P", "Q", "R", "S", "T", "U", "V", "W", "X", "Y", "Z",
     "a", "b", "c", "d", "e", "f", "g", "h", "i", "j", "k", "l", "m",
     "n", "o", "p", "q", "r", "s", "t", "u", "v", "w", "x", "y", "z",
     "^2" >>

Ord(c) == CHOOSE i \in 1..Len(CodeOrder) : CodeOrder[i] = c

AsciiDigits == <<"0", "1", "2", "3", "4", "5", "6", "7", "8", "9">>

IsAsciiDigit(c) == \E i \in 1..10 : AsciiDigits[i] = c

DigitValue(c) == (CHOOSE i \in 1..10 : AsciiDigits[i] = c) - 1

\* str.isdigit() accepts every character whose Unicode property is Digit,
\* which includes the superscript digits that int() rejects.
IsUnicodeDigit(c) == IsAsciiDigit(c) \/ c = "^2"

IsSpace(c) == c = " "

----------------------------------------------------------------------------
(* str methods.                                                            *)

RECURSIVE lstrip(_)
lstrip(s) ==
  IF s # <<>> /\ IsSpace(Head(s)) THEN lstrip(Tail(s)) ELSE s

RECURSIVE rstrip(_)
rstrip(s) ==
  IF s # <<>> /\ IsSpace(s[Len(s)]) THEN rstrip(SubSeq(s, 1, Len(s) - 1)) ELSE s

strip(s) == rstrip(lstrip(s))

\* text.split(","): the pieces between the commas; always at least one piece.
RECURSIVE split(_, _, _)
split(s, piece, done) ==
  IF s = <<>> THEN Append(done, piece)
  ELSE IF Head(s) = "," THEN split(Tail(s), <<>>, Append(done, piece))
  ELSE split(Tail(s), Append(piece, Head(s)), done)

isdigit(s) == s # <<>> /\ \A i \in 1..Len(s) : IsUnicodeDigit(s[i])

RECURSIVE DecimalValue(_, _)
DecimalValue(s, acc) ==
  IF s = <<>> THEN acc ELSE DecimalValue(Tail(s), 10 * acc + DigitValue(Head(s)))

\* int(s) on stripped text: an optional sign and at least one ASCII digit;
\* anything else raises ValueError.
int(s) ==
  LET signed == s # <<>> /\ Head(s) \in {"+", "-"}
      digits == IF signed THEN Tail(s) ELSE s
      ok     == digits # <<>> /\ \A i \in 1..Len(digits) : IsAsciiDigit(digits[i])
      n      == IF ok THEN DecimalValue(digits, 0) ELSE 0
  IN  [ok |-> ok, n |-> IF signed /\ Head(s) = "-" THEN 0 - n ELSE n]

RECURSIVE split_list_pieces(_)
split_list_pieces(pieces) ==
  IF pieces = <<>> THEN <<>>
  ELSE LET x == strip(Head(pieces))
       IN  (IF x # <<>> THEN <<x>> ELSE <<>>) \o split_list_pieces(Tail(pieces))

split_list(text) == split_list_pieces(split(text, <<>>, <<>>))

----------------------------------------------------------------------------
(* Python values.                                                          *)

\* Every value has the same four fields, so that any two can be compared.
Node(t, s, n, items) == [t |-> t, s |-> s, n |-> n, items |-> items]

PyNone == Node("null", <<>>, 0, <<>>)
PyStr(s) == Node("str", s, 0, <<>>)
PyInt(n) == Node("int", <<>>, n, <<>>)
PyList(l) == Node("list", <<>>, 0, l)
\* A dict keeps its keys in insertion order: a sequence of members.
Member(k, x) == Node("member", k, 0, <<x>>)
DictOf(members) == Node("obj", <<>>, 0, members)
\* The dict written {k1: x1, k2: x2, ...}, from the pairs <<k, x>>.
PyDict(kv) == DictOf([i \in 1..Len(kv) |-> Member(kv[i][1], kv[i][2])])

IsDict(x) == x.t = "obj"
IsList(x) == x.t = "list"

HasKey(d, k) == \E i \in 1..Len(d.items) : d.items[i].s = k

Get(d, k) == d.items[CHOOSE i \in 1..Len(d.items) : d.items[i].s = k].items[1]

\* d[k] = x
Put(d, k, x) ==
  IF HasKey(d, k)
  THEN DictOf([i \in 1..Len(d.items) |->
                 IF d.items[i].s = k THEN Member(k, x) ELSE d.items[i]])
  ELSE DictOf(Append(d.items, Member(k, x)))

\* Truth value of a Python object: empty text, empty containers, 0 and None
\* are false.
Truthy(x) ==
  CASE x.t = "null" -> FALSE
    [] x.t = "int"  -> x.n # 0
    [] x.t = "str"  -> x.s # <<>>
    [] OTHER        -> x.items # <<>>

----------------------------------------------------------------------------
(* json.dump and json.load.                                                *)

\* The text of a file is the sequence of tokens of the document: a scalar is
\* its own token, a list and an object are bracketed.  (Commas, colons and
\* the indentation carry no information and are left out.)
Punct(c) == Node(c, <<>>, 0, <<>>)

IsScalar(x) == x.t \in {"null", "int", "str"}

RECURSIVE json_dump(_)
RECURSIVE dump_items(_)
RECURSIVE dump_members(_)
json_dump(x) ==
  CASE IsScalar(x) -> <<x>>
    [] IsList(x)   -> <<Punct("[")>> \o dump_items(x.items) \o <<Punct("]")>>
    [] IsDict(x)   -> <<Punct("{")>> \o dump_members(x.items) \o <<Punct("}")>>

dump_items(l) ==
  IF l = <<>> THEN <<>> ELSE json_dump(Head(l)) \o dump_items(Tail(l))

dump_members(ms) ==
  IF ms = <<>> THEN <<>>
  ELSE <<PyStr(Head(ms).s)>> \o json_dump(Head(ms).items[1]) \o dump_members(Tail(ms))

\* The parser: each function returns [ok, val, next], next being the index
\* of the first token it did not consume.
ParseError == [ok |-> FALSE, val |-> PyNone, next |-> 0]

RECURSIVE parse_value(_, _)
RECURSIVE parse_items(_, _, _)
RECURSIVE parse_members(_, _, _)
parse_value(ts, i) ==
  IF i > Len(ts) THEN ParseError
  ELSE CASE IsScalar(ts[i]) -> [ok |-> TRUE, val |-> ts[i], next |-> i + 1]
         [] ts[i].t = "["   -> parse_items(ts, i + 1, <<>>)
         [] ts[i].t = "{"   -> parse_members(ts, i + 1, PyDict(<<>>))
         [] OTHER           -> ParseError

parse_items(ts, i, acc) ==
  IF i > Len(ts) THEN ParseError
  ELSE IF ts[i].t = "]" THEN [ok |-> TRUE, val |-> PyList(acc), next |-> i + 1]
  ELSE LET r == parse_value(ts, i)
       IN  IF r.ok THEN parse_items(ts, r.next, Append(acc, r.val)) ELSE ParseError

\* A key that occurs twice keeps its last value, as in json.load.
parse_members(ts, i, acc) ==
  IF i > Len(ts) THEN ParseError
  ELSE IF ts[i].t = "}" THEN [ok |-> TRUE, val |-> acc, next |-> i + 1]
  ELSE IF ts[i].t # "str" THEN ParseError
  ELSE LET r == parse_value(ts, i + 1)
       IN  IF r.ok THEN parse_members(ts, r.next, Put(acc, ts[i].s, r.val))
           ELSE ParseError

\* json.load(f): [ok, val]; not ok when json.load raises (an empty file, an
\* unfinished document, or text after the document).
json_load(ts) ==
  LET r == parse_value(ts, 1)
  IN  IF r.ok /\ r.next = Len(ts) + 1 THEN [ok |-> TRUE, val |-> r.val]
      ELSE [ok |-> FALSE, val |-> PyNone]

----------------------------------------------------------------------------
(* sorted(set(...)) as save_filters uses it.                               *)

IsHashable(x) == IsScalar(x)

\* set(l): the distinct elements (kept here in order of first occurrence;
\* the order of a set is arbitrary and sorted() makes it irrelevant).
RECURSIVE set(_)
set(l) ==
  IF l = <<>> THEN <<>>
  ELSE LET r == set(SubSeq(l, 1, Len(l) - 1))
           x == l[Len(l)]
       IN  IF \E i \in 1..Len(r) : r[i] = x THEN r ELSE Append(r, x)

RECURSIVE TextLess(_, _)
TextLess(a, b) ==
  IF b = <<>> THEN FALSE
  ELSE IF a = <<>> THEN TRUE
  ELSE IF Head(a) = Head(b) THEN TextLess(Tail(a), Tail(b))
  ELSE Ord(Head(a)) < Ord(Head(b))

\* x < y is defined between two ints and between two strs only.
Comparable(x, y) == x.t = y.t /\ x.t \in {"int", "str"}

Less(x, y) == IF x.t = "int" THEN x.n < y.n ELSE TextLess(x.s, y.s)

\* Insert x into the ascending sequence l, after the elements not above it.
RECURSIVE insort(_, _)
insort(l, x) ==
  IF l = <<>> THEN <<x>>
  ELSE IF Less(x, Head(l)) THEN <<x>> \o l
  ELSE <<Head(l)>> \o insort(Tail(l), x)

RECURSIVE sort(_)
sort(l) == IF l = <<>> THEN <<>> ELSE insort(sort(SubSeq(l, 1, Len(l) - 1)), l[Len(l)])

\* sorted(l): TypeError as soon as two elements cannot be compared.
sorted(l) ==
  IF \A i, j \in 1..Len(l) : i # j => Comparable(l[i], l[j])
  THEN [raised |-> "", val |-> sort(l)]
  ELSE [raised |-> "TypeError", val |-> <<>>]

\* Faulty variant: sorted(l), without the set.
sorted_set_keeps_duplicates(l) == sorted(l)

\* sorted(set(l)): TypeError when an element is unhashable (a list, a dict).
sorted_set(l) ==
  IF \A i \in 1..Len(l) : IsHashable(l[i])
  THEN sorted(set(l))
  ELSE [raised |-> "TypeError", val |-> <<>>]

----------------------------------------------------------------------------
(* The two documents.                                                      *)

K(name) == <<name>>

FILTER_KEYS ==
  << K("languages"), K("genres"), K("years"), K("singers"), K("musicBy"), K("albums") >>

EmptyCatalog == PyDict(<< <<K("songs"), PyList(<<>>)>> >>)

EmptyFilters == PyDict([i \in 1..6 |-> <<FILTER_KEYS[i], PyList(<<>>)>>])

\* A file: whether it exists and, if so, its text.
NoFile == [exists |-> FALSE, text |-> <<>>]
FileOf(text) == [exists |-> TRUE, text |-> text]

Returned(x) == [raised |-> "", val |-> x]
Raised(e) == [raised |-> e, val |-> PyNone]

\* `key in data` and `data[key] = []` need a dict: on any other JSON value
\* (a list, a string, a number, null) one of the two raises TypeError.
load_metadata(file) ==
  IF ~file.exists THEN Returned(EmptyCatalog)
  ELSE LET r == json_load(file.text)
       IN  IF ~r.ok THEN Returned(EmptyCatalog)
           ELSE IF ~IsDict(r.val) THEN Raised("TypeError")
           ELSE IF ~HasKey(r.val, K("songs")) \/ ~IsList(Get(r.val, K("songs")))
                THEN Returned(Put(r.val, K("songs"), PyList(<<>>)))
                ELSE Returned(r.val)

RECURSIVE normalize_keys(_, _)
normalize_keys(data, keys) ==
  IF keys = <<>> THEN data
  ELSE LET key == Head(keys)
           d   == IF ~HasKey(data, key) \/ ~IsList(Get(data, key))
                  THEN Put(data, key, PyList(<<>>)) ELSE data
       IN  normalize_keys(d, Tail(keys))

load_filters(file) ==
  IF ~file.exists THEN Returned(EmptyFilters)
  ELSE LET r == json_load(file.text)
       IN  IF ~r.ok THEN Returned(EmptyFilters)
           ELSE IF ~IsDict(r.val) THEN Raised("TypeError")
           ELSE Returned(normalize_keys(r.val, FILTER_KEYS))

\* The first half of save_filters: each key replaced, in turn, by the sorted
\* list of its distinct elements; the first key that cannot be sorted raises.
RECURSIVE dedupe_sort(_, _)
dedupe_sort(filters, keys) ==
  IF keys = <<>> THEN Returned(filters)
  ELSE LET r == sorted_set(Get(filters, Head(keys)).items)
       IN  IF r.raised # "" THEN Raised(r.raised)
           ELSE dedupe_sort(Put(filters, Head(keys), PyList(r.val)), Tail(keys))

----------------------------------------------------------------------------
(* Constants of the program.                                               *)

\* Kept as one fragment each: they are only ever a prefix of a URL.
AUDIO_CDN_BASE == <<"https://cdn.jsdelivr.net/gh/luffytaroOnePiece/audio/main/">>
COVER_CDN_BASE == <<"https://cdn.jsdelivr.net/gh/luffytaroOnePiece/coverimages/main/">>

AUDIO_EXT == <<".", "m", "p", "3">>
COVER_SUFFIX == <<"-", "C">>
COVER_EXT == <<".", "j", "p", "g">>

LANGUAGES ==
  << <<"E", "n", "g", "l", "i", "s", "h">>, <<"T", "e", "l", "u", "g", "u">>, <<"H", "i", "n", "d", "i">>,
     <<"T", "a", "m", "i", "l">>, <<"K", "a", "n", "n", "a", "d", "a">>, <<"M", "a", "l", "a", "y", "a", "l", "a", "m">>,
     <<"J", "a", "p", "a", "n", "e", "s", "e">>, <<"O", "t", "h", "e", "r">> >>

GENRES ==
  << <<"R", "o", "m", "a", "n", "c", "e">>, <<"M", "a", "s", "s">>, <<"M", "e", "l", "o", "d", "y">>,
     <<"D", "a", "n", "c", "e">>, <<"S", "a", "d">>, <<"D", "e", "v", "o", "t", "i", "o", "n", "a", "l">>,
     <<"V", "i", "l", "l", "a", "i", "n">>, <<"I", "t", "e", "m">>, <<"A", "n", "i", "m", "e">> >>

YOUTUBE_QUALITIES ==
  << <<"1", "4", "4", "p">>, <<"2", "4", "0", "p">>, <<"3", "6", "0", "p">>,
     <<"4", "8", "0", "p">>, <<"7", "2", "0", "p">>, <<"1", "0", "8", "0", "p">>,
     <<"1", "4", "4", "0", "p">>, <<"2", "1", "6", "0", "p">>, <<"4", "3", "2", "0", "p">> >>

\* datetime.now().year
CurrentYear == 2026

\* The identifiers uuid.uuid4() hands out, one per call and never twice.
UUIDS == <<"uuid-1", "uuid-2", "uuid-3", "uuid-4", "uuid-5", "uuid-6">>

----------------------------------------------------------------------------
(* build_song_entry's record and update_filters.                           *)

\* Faulty variant: the key is set whether or not the condition holds.
PutIf_always(cond, song, key, x) == Put(song, key, x)

\* song[key] = x when the condition holds, else song unchanged.
PutIf(cond, song, key, x) == IF cond THEN Put(song, key, x) ELSE song

\* Lines 168-199: the URLs, the record and its optional keys.  l holds the
\* local variables of build_song_entry as Python values.
song_entry(l, id) ==
  LET audio_url   == AUDIO_CDN_BASE \o l.base_name.s \o AUDIO_EXT
      cover_image == COVER_CDN_BASE \o l.base_name.s \o COVER_SUFFIX \o COVER_EXT
      album_image == COVER_CDN_BASE \o l.album_name.s \o COVER_EXT
      song == PyDict(<< <<K("id"), PyStr(<<id>>)>>,
                        <<K("title"), l.title>>,
                        <<K("singers"), l.singers>>,
                        <<K("language"), l.language>>,
                        <<K("year"), l.year>>,
                        <<K("audioUrl"), PyStr(audio_url)>>,
                        <<K("coverImage"), PyStr(cover_image)>>,
                        <<K("albumImage"), PyStr(album_image)>> >>)
      s1 == PutIf(Truthy(l.album), song, K("album"), l.album)
      s2 == PutIf(Truthy(l.genre), s1, K("genre"), l.genre)
      s3 == PutIf(Truthy(l.music_by), s2, K("musicBy"), l.music_by)
  IN  PutIf(Truthy(l.youtube_url), s3, K("youtube"),
            PyDict(<< <<K("url"), l.youtube_url>>,
                      <<K("formats"), l.youtube_format>> >>))

\* filters[key].append(x)
AppendTo(filters, key, x) ==
  Put(filters, key, PyList(Append(Get(filters, key).items, x)))

\* filters[key].extend(xs)
ExtendTo(filters, key, xs) ==
  Put(filters, key, PyList(Get(filters, key).items \o xs))

\* The `if key in song and song[key]: filters[to].append(song[key])` lines.
append_if_set(filters, song, key, to) ==
  IF HasKey(song, key) /\ Truthy(Get(song, key))
  THEN AppendTo(filters, to, Get(song, key))
  ELSE filters

\* Faulty variant: update_filters without the extend of the singers.
update_filters_forgets_singers(filters, song) ==
  LET f1 == append_if_set(filters, song, K("language"), K("languages"))
      f2 == append_if_set(f1, song, K("genre"), K("genres"))
      f3 == append_if_set(f2, song, K("year"), K("years"))
      f5 == append_if_set(f3, song, K("musicBy"), K("musicBy"))
  IN  append_if_set(f5, song, K("album"), K("albums"))

update_filters(filters, song) ==
  LET f1 == append_if_set(filters, song, K("language"), K("languages"))
      f2 == append_if_set(f1, song, K("genre"), K("genres"))
      f3 == append_if_set(f2, song, K("year"), K("years"))
      f4 == IF HasKey(song, K("singers")) /\ IsList(Get(song, K("singers")))
            THEN ExtendTo(f3, K("singers"), Get(song, K("singers")).items)
            ELSE f3
      f5 == append_if_set(f4, song, K("musicBy"), K("musicBy"))
  IN  append_if_set(f5, song, K("album"), K("albums"))

\* Faulty variant: db["songs"] = [song].
append_song_replaces(db, song) == Put(db, K("songs"), PyList(<<song>>))

\* db["songs"].append(song)
append_song(db, song) ==
  Put(db, K("songs"), PyList(Append(Get(db, K("songs")).items, song)))

----------------------------------------------------------------------------
(* The state.                                                              *)

\* Two invocations of the program (two terminals in the same directory).
Procs == {"A", "B"}

\* How many times an operator runs the program one run after the other.
MaxRuns == 2

\* How many times in a row an operator answers one prompt wrongly.
MaxRetries == 2

VARIABLES
  metadata_json,  \* the file metadata.json: [exists, text]
  filters_json,   \* the file filters.json: [exists, text]
  pc,             \* pc[p]: where invocation p stands in main
  in_custom,      \* in_custom[p]: prompt_choice waits at "Enter custom value: "
  loc,            \* loc[p]: the local variables of main and build_song_entry
  err,            \* err[p]: how the last run of p ended early: [exc, at]
  retries,        \* retries[p]: wrong answers given to the current prompt
  said,           \* said[p]: the last message the current prompt printed
  issued,         \* number of identifiers uuid4 has handed out
  runs_left,      \* runs_left[p]: runs the operator of p still starts
  repertoire,     \* repertoire[p]: the kinds of answers the operator of p gives
  typing,         \* typing[p]: the kind of answers given during this run
  before,         \* history: before[p] = the two files when the run of p began
  seen,           \* history: seen[p] = the two files as the run of p read them
  io,             \* history: io[p] = the file operations of the run of p
  presave,        \* history: presave[p] = the index as save_filters got it
  last_writer,    \* history: who last finished writing each file
  overlapped      \* history: files opened for writing while open elsewhere

vars == << metadata_json, filters_json, pc, in_custom, loc, err, retries, said,
           issued, runs_left, repertoire, typing, before, seen, io,
           presave, last_writer, overlapped >>

files == << metadata_json, filters_json >>
history == << before, seen, io, presave, last_writer, overlapped >>

NoLocals ==
  [ db |-> PyNone, filters |-> PyNone, song |-> PyNone, title |-> PyNone,
    singers_raw |-> PyNone, singers |-> PyNone, music_by |-> PyNone,
    language |-> PyNone, year_in |-> PyNone, year |-> PyNone,
    base_name |-> PyNone, album_name |-> PyNone, album |-> PyNone,
    genre |-> PyNone, youtube_url |-> PyNone, youtube_format |-> PyNone ]

NoErr == [exc |-> "", at |-> ""]

\* The prompts of build_song_entry, in order, by the variable each assigns.
BUILD_ORDER ==
  << "title", "singers_raw", "music_by", "language", "year_in", "base_name",
     "album_name", "album", "genre", "youtube_url", "youtube_format" >>

REQUIRED == {"title", "singers_raw", "base_name"}
OPTIONAL == {"music_by", "album_name", "album", "youtube_url"}
CHOICE   == {"language", "genre", "youtube_format"}

OptionsOf(name) ==
  CASE name = "language"       -> LANGUAGES
    [] name = "genre"          -> GENRES
    [] name = "youtube_format" -> YOUTUBE_QUALITIES

\* Where build_song_entry goes once `name` is assigned in locals l: to the
\* next prompt, skipping the quality menu when no YouTube URL was given.
after_prompt(name, l) ==
  LET i == CHOOSE i \in 1..Len(BUILD_ORDER) : BUILD_ORDER[i] = name
  IN  IF name = "youtube_url" /\ ~Truthy(l.youtube_url) THEN "add_song"
      ELSE IF i = Len(BUILD_ORDER) THEN "add_song"
      ELSE BUILD_ORDER[i + 1]

IsPrompt(at) == \E i \in 1..Len(BUILD_ORDER) : BUILD_ORDER[i] = at

Running(p) == pc[p] \notin {"off", "done", "aborted", "killed"}

----------------------------------------------------------------------------
(* What the operators type.  An answer is a line of text; each kind of     *)
(* operator has, for every prompt, the lines it may type there.            *)

\* "any": every sort of answer, valid and invalid.
AnyLines(name) ==
  CASE name = "title"          -> {<<>>, <<" ">>, <<"T">>}
    [] name = "singers_raw"    -> {<<>>, <<",">>, <<"a">>, <<"a", ",", " ", "b">>, <<" ", "b", " ", ",", ",", "a", " ">>}
    [] name = "music_by"       -> {<<>>, <<"m">>}
    [] name = "language"       -> {<<"1">>, <<"8">>, <<"0">>, <<"9">>, <<"x">>, <<>>, <<"^2">>}
    [] name = "year_in"        -> {<<>>, <<" ", "0">>, <<"7">>, <<"-", "3">>, <<"x">>}
    [] name = "base_name"      -> {<<>>, <<"N">>}
    [] name = "album_name"     -> {<<>>, <<"A">>}
    [] name = "album"          -> {<<" ">>, <<"A">>}
    [] name = "genre"          -> {<<"2">>, <<"0">>, <<"1", "0">>}
    [] name = "youtube_url"    -> {<<>>, <<"u">>}
    [] name = "youtube_format" -> {<<"5">>, <<"0">>, <<"-", "1">>}
    [] name = "custom"         -> {<<>>, <<" ", "c", " ">>}

\* "full": a song with every optional value, after one wrong answer here
\* and there.
FullLines(name) ==
  CASE name = "title"          -> {<<>>, <<"T">>}
    [] name = "singers_raw"    -> {<<"b", ",", " ", "a">>}
    [] name = "music_by"       -> {<<"m">>}
    [] name = "language"       -> {<<"x">>, <<"1">>}
    [] name = "year_in"        -> {<<>>}
    [] name = "base_name"      -> {<<"N">>}
    [] name = "album_name"     -> {<<"A">>}
    [] name = "album"          -> {<<"A">>}
    [] name = "genre"          -> {<<"0">>}
    [] name = "youtube_url"    -> {<<"u">>}
    [] name = "youtube_format" -> {<<"5">>}
    [] name = "custom"         -> {<<"G">>}

\* "terse": every optional value, no wrong answer.
TerseLines(name) ==
  CASE name = "title"          -> {<<"T">>}
    [] name = "singers_raw"    -> {<<"b", ",", " ", "a">>}
    [] name = "music_by"       -> {<<"m">>}
    [] name = "language"       -> {<<"1">>}
    [] name = "year_in"        -> {<<>>}
    [] name = "base_name"      -> {<<"N">>}
    [] name = "album_name"     -> {<<"A">>}
    [] name = "album"          -> {<<"A">>}
    [] name = "genre"          -> {<<"4">>}
    [] name = "youtube_url"    -> {<<"u">>}
    [] name = "youtube_format" -> {<<"5">>}
    [] OTHER                   -> {<<>>}

\* "bare": as little as the prompts let through.
BareLines(name) ==
  CASE name = "title"          -> {<<"S">>}
    [] name = "singers_raw"    -> {<<",">>}
    [] name = "language"       -> {<<"0">>}
    [] name = "year_in"        -> {<<"0">>}
    [] name = "base_name"      -> {<<"M">>}
    [] name = "genre"          -> {<<"0">>}
    [] OTHER                   -> {<<>>}

\* "odd": a plain song of the year 0, or of a year that is not a number.
OddLines(name) ==
  CASE name = "title"          -> {<<"U">>}
    [] name = "singers_raw"    -> {<<"a">>}
    [] name = "language"       -> {<<"3">>}
    [] name = "year_in"        -> {<<"0">>, <<"x">>}
    [] name = "base_name"      -> {<<"N">>}
    [] name = "genre"          -> {<<"2">>}
    [] OTHER                   -> {<<>>}

Lines(kind, name) ==
  CASE kind = "any"  -> AnyLines(name)
    [] kind = "full" -> FullLines(name)
    [] kind = "terse" -> TerseLines(name)
    [] kind = "bare" -> BareLines(name)
    [] kind = "odd"  -> OddLines(name)

----------------------------------------------------------------------------
(* The files a run may find.                                               *)

OldSong == PyDict(<< <<K("id"), PyStr(<<"uuid-0">>)>>, <<K("title"), PyStr(<<"O">>)>> >>)

GoodCatalog ==
  PyDict(<< <<K("songs"), PyList(<<OldSong>>)>>, <<K("version"), PyInt(1)>> >>)

GoodFilters ==
  PyDict(<< <<K("languages"), PyList(<<PyStr(<<"T", "a", "m", "i", "l">>)>>)>>,
            <<K("genres"), PyList(<<>>)>>,
            <<K("years"), PyList(<<PyInt(1999)>>)>>,
            <<K("singers"), PyList(<<PyStr(<<"c">>), PyStr(<<"z">>)>>)>>,
            <<K("musicBy"), PyList(<<>>)>>,
            <<K("albums"), PyList(<<>>)>> >>)

\* Written by hand: out of order, with a duplicate, and five keys missing.
UnsortedFilters ==
  PyDict(<< <<K("singers"), PyList(<<PyStr(<<"b">>), PyStr(<<"a">>), PyStr(<<"b">>)>>)>> >>)

\* Valid JSON whose years are text.
TextYearFilters ==
  PyDict(<< <<K("years"), PyList(<<PyStr(<<"x">>)>>)>> >>)

BadKeys == PyDict(<< <<K("songs"), PyStr(<<"x">>)>>, <<K("years"), PyInt(7)>> >>)

\* Each pair is <<metadata.json, filters.json>>.
MissingFiles == <<NoFile, NoFile>>
GoodFiles == <<FileOf(json_dump(GoodCatalog)), FileOf(json_dump(GoodFilters))>>

FoundFiles ==
  { MissingFiles,
    GoodFiles,
    \* an empty file and a document cut short
    <<FileOf(<<>>), FileOf(<<Punct("{"), PyStr(K("years"))>>)>>,
    \* documents that are not objects
    <<FileOf(json_dump(PyList(<<>>))), FileOf(json_dump(PyNone))>>,
    <<FileOf(json_dump(GoodCatalog)), FileOf(json_dump(PyList(<<PyStr(K("years"))>>)))>>,
    \* objects whose keys are missing or not lists
    <<FileOf(json_dump(BadKeys)), FileOf(json_dump(BadKeys))>>,
    <<FileOf(json_dump(GoodCatalog)), FileOf(json_dump(UnsortedFilters))>>,
    <<FileOf(json_dump(GoodCatalog)), FileOf(json_dump(TextYearFilters))>> }

----------------------------------------------------------------------------
(* Initial states.                                                         *)

InitWith(found, kinds, runs) ==
  /\ \E pair \in found : metadata_json = pair[1] /\ filters_json = pair[2]
  /\ pc = [p \in Procs |-> "off"]
  /\ in_custom = [p \in Procs |-> FALSE]
  /\ loc = [p \in Procs |-> NoLocals]
  /\ err = [p \in Procs |-> NoErr]
  /\ retries = [p \in Procs |-> 0]
  /\ said = [p \in Procs |-> ""]
  /\ issued = 0
  /\ runs_left = runs
  /\ repertoire = kinds
  /\ typing = [p \in Procs |-> ""]
  /\ before = [p \in Procs |-> [metadata |-> NoFile, filters |-> NoFile, peers |-> pc]]
  /\ seen = [p \in Procs |-> [metadata |-> NoFile, filters |-> NoFile]]
  /\ io = [p \in Procs |-> <<>>]
  /\ presave = [p \in Procs |-> PyNone]
  /\ last_writer = [metadata |-> "", filters |-> ""]
  /\ overlapped = {}

\* One operator, one terminal: run after run.
Init ==
  InitWith(FoundFiles,
           [p \in Procs |-> IF p = "A" THEN {"full", "bare", "odd"} ELSE {}],
           [p \in Procs |-> IF p = "A" THEN MaxRuns ELSE 0])

\* One run, every sort of answer.
BuildInit ==
  InitWith({MissingFiles},
           [p \in Procs |-> IF p = "A" THEN {"any"} ELSE {}],
           [p \in Procs |-> IF p = "A" THEN 1 ELSE 0])

\* Two terminals, one run each.
OverlapInit ==
  InitWith({GoodFiles},
           [p \in Procs |-> IF p = "A" THEN {"terse"} ELSE {"bare"}],
           [p \in Procs |-> 1])

----------------------------------------------------------------------------
(* main, step by step.                                                     *)

\* Faulty variant: main saves before it asks.
after_load_saves_first == "save_metadata"

\* The pc after load_filters returns: build_song_entry's first prompt.
after_load == "title"

\* Faulty variant: the two saves the other way round.
first_save_is_filters == "save_filters"

\* The pc after the record is printed: save_metadata(db) ...
first_save == "save_metadata"

\* ... and then save_filters(filters).
second_save == "save_filters"

\* Faulty variant: open(path, "r+"), which keeps the text.
Truncate_keeps_text(file) == FileOf(file.text)

\* open(path, "w") creates the file or cuts it to nothing.
Truncate(file) == FileOf(<<>>)

\* The buffered text reaches the file at close, written from offset 0 of
\* this invocation's own descriptor: text the file got from another writer
\* since the open stays where this one is shorter.
Overwrite(old, new) == new \o SubSeq(old, Len(new) + 1, Len(old))

Log(p, what) == io' = [io EXCEPT ![p] = Append(@, what)]

\* An exception nobody catches: the traceback is printed, the process ends.
Abort(p, exc) ==
  /\ pc' = [pc EXCEPT ![p] = "aborted"]
  /\ err' = [err EXCEPT ![p] = [exc |-> exc, at |-> pc[p]]]
  /\ loc' = [loc EXCEPT ![p] = NoLocals]
  /\ in_custom' = [in_custom EXCEPT ![p] = FALSE]
  /\ retries' = [retries EXCEPT ![p] = 0]
  /\ said' = [said EXCEPT ![p] = ""]

\* A step of main that neither prompts nor fails.
Goto(p, to, l) ==
  /\ pc' = [pc EXCEPT ![p] = to]
  /\ loc' = [loc EXCEPT ![p] = l]
  /\ UNCHANGED << err, in_custom, retries, said >>

\* The operator starts the program.
start(p) ==
  /\ ~Running(p)
  /\ runs_left[p] > 0
  /\ runs_left' = [runs_left EXCEPT ![p] = @ - 1]
  /\ \E kind \in repertoire[p] : typing' = [typing EXCEPT ![p] = kind]
  /\ pc' = [pc EXCEPT ![p] = "load_metadata"]
  /\ loc' = [loc EXCEPT ![p] = NoLocals]
  /\ err' = [err EXCEPT ![p] = NoErr]
  /\ before' = [before EXCEPT ![p] =
                  [metadata |-> metadata_json, filters |-> filters_json, peers |-> pc]]
  /\ seen' = [seen EXCEPT ![p] = [metadata |-> NoFile, filters |-> NoFile]]
  /\ io' = [io EXCEPT ![p] = <<>>]
  /\ presave' = [presave EXCEPT ![p] = PyNone]
  /\ UNCHANGED << files, in_custom, retries, said, issued, repertoire,
                  last_writer, overlapped >>

\* db = load_metadata()
call_load_metadata(p) ==
  /\ pc[p] = "load_metadata"
  /\ LET r == load_metadata(metadata_json)
     IN  IF r.raised # "" THEN Abort(p, r.raised)
         ELSE Goto(p, "load_filters", [loc[p] EXCEPT !.db = r.val])
  /\ Log(p, "read metadata.json")
  /\ seen' = [seen EXCEPT ![p].metadata = metadata_json]
  /\ UNCHANGED << files, issued, runs_left, repertoire, typing, before,
                  presave, last_writer, overlapped >>

\* filters = load_filters()
call_load_filters(p) ==
  /\ pc[p] = "load_filters"
  /\ LET r == load_filters(filters_json)
     IN  IF r.raised # "" THEN Abort(p, r.raised)
         ELSE Goto(p, after_load, [loc[p] EXCEPT !.filters = r.val])
  /\ Log(p, "read filters.json")
  /\ seen' = [seen EXCEPT ![p].filters = filters_json]
  /\ UNCHANGED << files, issued, runs_left, repertoire, typing, before,
                  presave, last_writer, overlapped >>

\* A prompt got its value: the variable is assigned in l, on to the next.
Answer(p, name, l) ==
  /\ pc' = [pc EXCEPT ![p] = after_prompt(name, l)]
  /\ loc' = [loc EXCEPT ![p] = l]
  /\ in_custom' = [in_custom EXCEPT ![p] = FALSE]
  /\ retries' = [retries EXCEPT ![p] = 0]
  /\ said' = [said EXCEPT ![p] = ""]
  /\ UNCHANGED err

\* A prompt prints its message and asks again.
Retry(p, message) ==
  /\ retries[p] < MaxRetries
  /\ retries' = [retries EXCEPT ![p] = @ + 1]
  /\ said' = [said EXCEPT ![p] = message]
  /\ UNCHANGED << pc, loc, in_custom, err >>

StrList(texts) == PyList([i \in 1..Len(texts) |-> PyStr(texts[i])])

\* prompt_required, and for the singers the split_list that follows it.
prompt_required(p) ==
  /\ pc[p] \in REQUIRED
  /\ \E line \in Lines(typing[p], pc[p]) :
       LET val == strip(line)
           l   == [loc[p] EXCEPT ![pc[p]] = PyStr(val)]
       IN  IF val # <<>>
           THEN Answer(p, pc[p],
                       IF pc[p] = "singers_raw"
                       THEN [l EXCEPT !.singers = StrList(split_list(val))]
                       ELSE l)
           ELSE Retry(p, "This field is required.")
  /\ UNCHANGED << files, issued, runs_left, repertoire, typing, history >>

prompt_optional(p) ==
  /\ pc[p] \in OPTIONAL
  /\ \E line \in Lines(typing[p], pc[p]) :
       Answer(p, pc[p], [loc[p] EXCEPT ![pc[p]] = PyStr(strip(line))])
  /\ UNCHANGED << files, issued, runs_left, repertoire, typing, history >>

\* prompt_choice at "Choose: ".
prompt_choice(p) ==
  /\ pc[p] \in CHOICE
  /\ ~in_custom[p]
  /\ \E line \in Lines(typing[p], pc[p]) :
       LET sel     == strip(line)
           n       == int(sel)
           options == OptionsOf(pc[p])
       IN  IF ~isdigit(sel) THEN Retry(p, "Invalid. Try again.")
           ELSE IF ~n.ok THEN Abort(p, "ValueError")
           ELSE IF n.n = 0
                THEN /\ in_custom' = [in_custom EXCEPT ![p] = TRUE]
                     /\ UNCHANGED << pc, loc, err, retries, said >>
           ELSE IF 1 <= n.n /\ n.n <= Len(options)
                THEN Answer(p, pc[p], [loc[p] EXCEPT ![pc[p]] = PyStr(options[n.n])])
           ELSE Retry(p, "Invalid. Try again.")
  /\ UNCHANGED << files, issued, runs_left, repertoire, typing, history >>

\* prompt_choice at "Enter custom value: ".
prompt_choice_custom(p) ==
  /\ pc[p] \in CHOICE
  /\ in_custom[p]
  /\ \E line \in Lines(typing[p], "custom") :
       Answer(p, pc[p], [loc[p] EXCEPT ![pc[p]] = PyStr(strip(line))])
  /\ UNCHANGED << files, issued, runs_left, repertoire, typing, history >>

\* Lines 161-162: the year, read without a retry loop.
prompt_year(p) ==
  /\ pc[p] = "year_in"
  /\ \E line \in Lines(typing[p], pc[p]) :
       LET year_in == strip(line)
           n       == int(year_in)
           year    == IF year_in # <<>> THEN n.n ELSE CurrentYear
       IN  IF year_in # <<>> /\ ~n.ok THEN Abort(p, "ValueError")
           ELSE Answer(p, pc[p],
                       [loc[p] EXCEPT !.year_in = PyStr(year_in), !.year = PyInt(year)])
  /\ UNCHANGED << files, issued, runs_left, repertoire, typing, history >>

\* The record is built and returned (lines 181-201); main appends it to the
\* catalog, folds it into the filters and prints it (lines 232-236).
add_song(p) ==
  /\ pc[p] = "add_song"
  /\ issued < Len(UUIDS)
  /\ issued' = issued + 1
  /\ LET song == song_entry(loc[p], UUIDS[issued + 1])
     IN  Goto(p, first_save,
              [loc[p] EXCEPT !.song = song,
                             !.db = append_song(loc[p].db, song),
                             !.filters = update_filters(loc[p].filters, song)])
  /\ UNCHANGED << files, runs_left, repertoire, typing, history >>

\* save_metadata: open(METADATA_FILE, "w") ...
save_metadata_open(p) ==
  /\ pc[p] = "save_metadata"
  /\ metadata_json' = Truncate(metadata_json)
  /\ overlapped' = IF \E q \in Procs \ {p} : pc[q] = "save_metadata_dump"
                   THEN overlapped \cup {"metadata.json"} ELSE overlapped
  /\ Goto(p, "save_metadata_dump", loc[p])
  /\ Log(p, "open metadata.json")
  /\ UNCHANGED << filters_json, issued, runs_left, repertoire, typing, before,
                  seen, presave,last_writer >>

\* ... json.dump(db, f) and the close that flushes it.
save_metadata_dump(p) ==
  /\ pc[p] = "save_metadata_dump"
  /\ metadata_json' = FileOf(Overwrite(metadata_json.text, json_dump(loc[p].db)))
  /\ last_writer' = [last_writer EXCEPT !.metadata = p]
  /\ Goto(p, second_save, loc[p])
  /\ Log(p, "close metadata.json")
  /\ UNCHANGED << filters_json, issued, runs_left, repertoire, typing, before,
                  seen, presave,overlapped >>

\* save_filters: the six sorted(set(...)) and open(FILTERS_FILE, "w") ...
save_filters_open(p) ==
  /\ pc[p] = "save_filters"
  /\ LET r == dedupe_sort(loc[p].filters, FILTER_KEYS)
     IN  IF r.raised # ""
         THEN /\ Abort(p, r.raised)
              /\ UNCHANGED << filters_json, overlapped, io >>
         ELSE /\ Goto(p, "save_filters_dump", [loc[p] EXCEPT !.filters = r.val])
              /\ filters_json' = Truncate(filters_json)
              /\ overlapped' = IF \E q \in Procs \ {p} : pc[q] = "save_filters_dump"
                               THEN overlapped \cup {"filters.json"} ELSE overlapped
              /\ Log(p, "open filters.json")
  /\ presave' = [presave EXCEPT ![p] = loc[p].filters]
  /\ UNCHANGED << metadata_json, issued, runs_left, repertoire, typing, before,
                  seen, last_writer >>

\* ... json.dump(filters, f) and the close; main returns.
save_filters_dump(p) ==
  /\ pc[p] = "save_filters_dump"
  /\ filters_json' = FileOf(Overwrite(filters_json.text, json_dump(loc[p].filters)))
  /\ last_writer' = [last_writer EXCEPT !.filters = p]
  /\ Goto(p, "done", loc[p])
  /\ Log(p, "close filters.json")
  /\ UNCHANGED << metadata_json, issued, runs_left, repertoire, typing, before,
                  seen, presave, overlapped >>

\* The operator ends the process (Ctrl-C, closing the terminal).
kill(p) ==
  /\ Running(p)
  /\ pc' = [pc EXCEPT ![p] = "killed"]
  /\ err' = [err EXCEPT ![p] = [exc |-> "killed", at |-> pc[p]]]
  /\ loc' = [loc EXCEPT ![p] = NoLocals]
  /\ in_custom' = [in_custom EXCEPT ![p] = FALSE]
  /\ retries' = [retries EXCEPT ![p] = 0]
  /\ said' = [said EXCEPT ![p] = ""]
  /\ UNCHANGED << files, issued, runs_left, repertoire, typing, history >>

Next ==
  \E p \in Procs :
    \/ start(p)
    \/ call_load_metadata(p)
    \/ call_load_filters(p)
    \/ prompt_required(p)
    \/ prompt_optional(p)
    \/ prompt_choice(p)
    \/ prompt_choice_custom(p)
    \/ prompt_year(p)
    \/ add_song(p)
    \/ save_metadata_open(p)
    \/ save_metadata_dump(p)
    \/ save_filters_open(p)
    \/ save_filters_dump(p)
    \/ kill(p)

Spec == Init /\ [][Next]_vars

BuildSpec == BuildInit /\ [][Next]_vars

OverlapSpec == OverlapInit /\ [][Next]_vars

----------------------------------------------------------------------------
(* Properties.                                                             *)

Elems(l) == {l[i] : i \in 1..Len(l)}

Other(p) == CHOOSE q \in Procs : q # p

\* The file holds an object whose "songs" is a list.
HasSongList(file) ==
  /\ file.exists
  /\ LET r == json_load(file.text)
     IN  r.ok /\ IsDict(r.val) /\ HasKey(r.val, K("songs"))
              /\ IsList(Get(r.val, K("songs")))

\* The song list stored in the file (none when the file holds no list).
StoredSongs(file) ==
  IF HasSongList(file) THEN Get(json_load(file.text).val, K("songs")).items ELSE <<>>

\* The values stored in the file under a filter key (none when the file does
\* not hold an object with a list under that key).
StoredValues(file, key) ==
  LET r == json_load(file.text)
  IN  IF file.exists /\ r.ok /\ IsDict(r.val) /\ HasKey(r.val, key)
         /\ IsList(Get(r.val, key))
      THEN Elems(Get(r.val, key).items) ELSE {}

StrictlyAscending(l) ==
  \A i \in 1..(Len(l) - 1) : Comparable(l[i], l[i + 1]) /\ Less(l[i], l[i + 1])

\* C1: when a run of main completes, the song list in metadata.json is the
\* list the file held when the run began (empty if there was no file) with
\* the run's one new record appended: nothing removed, edited or reordered,
\* run after run.
C1_AppendOnly ==
  \A p \in Procs :
    (pc[p] = "done" /\ (HasSongList(before[p].metadata) \/ ~before[p].metadata.exists))
      => /\ HasSongList(metadata_json)
         /\ StoredSongs(metadata_json)
              = Append(StoredSongs(before[p].metadata), loc[p].song)

\* A second run has completed on top of a list that already held two songs.
C1_Witness ==
  /\ pc["A"] = "done"
  /\ Len(StoredSongs(before["A"].metadata)) = 2
  /\ Len(StoredSongs(metadata_json)) = 3

\* C2: whatever the order and the duplicates of the index in memory, what
\* save_filters writes and load_filters reads back has, under each of the
\* six keys, an ascending list without duplicates of exactly the distinct
\* elements the key had before the save; saving what was read back writes
\* the same text again.
C2_SaveThenLoad ==
  \A p \in Procs :
    pc[p] = "done"
      => LET r     == load_filters(filters_json)
             again == dedupe_sort(r.val, FILTER_KEYS)
         IN  /\ r.raised = ""
             /\ \A i \in 1..6 :
                  /\ HasKey(r.val, FILTER_KEYS[i])
                  /\ IsList(Get(r.val, FILTER_KEYS[i]))
                  /\ StrictlyAscending(Get(r.val, FILTER_KEYS[i]).items)
                  /\ Elems(Get(r.val, FILTER_KEYS[i]).items)
                       = Elems(Get(presave[p], FILTER_KEYS[i]).items)
             /\ again.raised = ""
             /\ json_dump(again.val) = filters_json.text

\* A completed save of an index read from a file that had its singers out
\* of order and twice, to which the run added the same singers again.
C2_Witness ==
  /\ pc["A"] = "done"
  /\ typing["A"] = "full"
  /\ seen["A"].filters = FileOf(json_dump(UnsortedFilters))
  /\ Len(Get(presave["A"], K("singers")).items) > Cardinality(Elems(Get(presave["A"], K("singers")).items))

\* C3: load_metadata and load_filters never raise, whatever the file holds,
\* and what they return has "songs" (the six filter keys) as lists.
C3_LoadsAreTotal ==
  \A p \in Procs :
    /\ ~(pc[p] = "aborted" /\ err[p].at \in {"load_metadata", "load_filters"})
    /\ loc[p].db # PyNone
         => /\ IsDict(loc[p].db)
            /\ HasKey(loc[p].db, K("songs"))
            /\ IsList(Get(loc[p].db, K("songs")))
    /\ loc[p].filters # PyNone
         => /\ IsDict(loc[p].filters)
            /\ \A i \in 1..6 : /\ HasKey(loc[p].filters, FILTER_KEYS[i])
                               /\ IsList(Get(loc[p].filters, FILTER_KEYS[i]))

\* C4: every record build_song_entry returns has at least one singer, and
\* each singer is non-empty text.
C4_SingersNonEmpty ==
  \A p \in Procs :
    loc[p].song # PyNone
      => LET singers == Get(loc[p].song, K("singers"))
         IN  /\ IsList(singers)
             /\ Len(singers.items) >= 1
             /\ \A i \in 1..Len(singers.items) :
                  singers.items[i].t = "str" /\ singers.items[i].s # <<>>

\* The key is in the record exactly when the answer it comes from is not
\* empty, and then holds that answer.
OptionalKey(song, key, answer) ==
  /\ HasKey(song, key) <=> answer.s # <<>>
  /\ HasKey(song, key) => Get(song, key) = answer

\* C5: in every record built, album, genre and musicBy are present exactly
\* when their answer was not empty (never present and empty), and youtube
\* is present exactly when a URL was given and then holds url and formats.
C5_OptionalKeys ==
  \A p \in Procs :
    loc[p].song # PyNone
      => LET song == loc[p].song
             l    == loc[p]
         IN  /\ OptionalKey(song, K("album"), l.album)
             /\ OptionalKey(song, K("genre"), l.genre)
             /\ OptionalKey(song, K("musicBy"), l.music_by)
             /\ HasKey(song, K("youtube")) <=> l.youtube_url.s # <<>>
             /\ HasKey(song, K("youtube"))
                  => LET youtube == Get(song, K("youtube"))
                     IN  /\ IsDict(youtube)
                         /\ HasKey(youtube, K("url"))
                         /\ Get(youtube, K("url")) = l.youtube_url
                         /\ HasKey(youtube, K("formats"))
                         /\ Get(youtube, K("formats")) = l.youtube_format

\* A record with a YouTube URL, built after the operator left the album
\* blank and chose 0 for the genre with an empty custom value.
C5_Witness ==
  /\ loc["A"].song # PyNone
  /\ loc["A"].album = PyStr(<<>>)
  /\ loc["A"].genre = PyStr(<<>>)
  /\ ~HasKey(loc["A"].song, K("album"))
  /\ ~HasKey(loc["A"].song, K("genre"))
  /\ HasKey(loc["A"].song, K("musicBy"))
  /\ HasKey(loc["A"].song, K("youtube"))

\* C6: no answer to a prompt of build_song_entry (a required field, a menu,
\* the year) ends the run: a wrong answer is asked for again.
C6_PromptsNeverAbort ==
  \A p \in Procs : ~(pc[p] = "aborted" /\ IsPrompt(err[p].at))

\* What the claim says a song adds under a filter key.
Adds(song, key) ==
  LET one(k) == IF HasKey(song, k) /\ Get(song, k).s # <<>>
                THEN {Get(song, k)} ELSE {}
  IN  CASE key = K("languages") -> one(K("language"))
        [] key = K("genres")    -> one(K("genre"))
        [] key = K("musicBy")   -> one(K("musicBy"))
        [] key = K("albums")    -> one(K("album"))
        [] key = K("singers")   -> Elems(Get(song, K("singers")).items)
        [] key = K("years")     -> IF Get(song, K("year")).n # 0
                                   THEN {Get(song, K("year"))} ELSE {}

\* C7: after a completed run, each key of the saved index holds the values
\* it held when the run began and the song's language, genre, musicBy and
\* album (when present and not empty), singers and year (unless 0): values
\* are added, never removed.
C7_FiltersAccumulate ==
  \A p \in Procs :
    pc[p] = "done"
      => \A i \in 1..6 :
           StoredValues(filters_json, FILTER_KEYS[i])
             = StoredValues(before[p].filters, FILTER_KEYS[i])
                 \cup Adds(loc[p].song, FILTER_KEYS[i])

\* A completed run on a valid index: the song of the year 0 added its
\* language, genre and singer to what was there, and no year.
C7_Witness ==
  /\ pc["A"] = "done"
  /\ typing["A"] = "odd"
  /\ before["A"].filters = GoodFiles[2]
  /\ StoredValues(filters_json, K("years")) = {PyInt(1999)}
  /\ StoredValues(filters_json, K("languages"))
       = {PyStr(<<"H", "i", "n", "d", "i">>), PyStr(<<"T", "a", "m", "i", "l">>)}

\* The places of main before build_song_entry has returned.
BeforeBuilt == {"load_metadata", "load_filters", "add_song"} \cup Elems(BUILD_ORDER)

\* C8: as long as build_song_entry has not returned, and after a run that
\* was ended or failed before it returned, both files are what they were
\* when the run began.
C8_NoWriteBeforeBuilt ==
  \A p \in Procs :
    (\/ Running(p) /\ loc[p].song = PyNone
     \/ pc[p] \in {"killed", "aborted"} /\ err[p].at \in BeforeBuilt)
      => metadata_json = before[p].metadata /\ filters_json = before[p].filters

\* The operator ended the run at the last prompt.
C8_Witness ==
  /\ pc["A"] = "killed"
  /\ err["A"].at = "youtube_format"
  /\ metadata_json.exists

Precedes(log, first, then) ==
  \A i \in 1..Len(log) : log[i] = then => \E j \in 1..(i - 1) : log[j] = first

\* C9: a run opens filters.json for writing only after it has written and
\* closed metadata.json.
C9_CatalogFirst ==
  \A p \in Procs : Precedes(io[p], "close metadata.json", "open filters.json")

\* Ended between the two saves: metadata.json has the new song, filters.json
\* is as it was and lacks the song's language.
C9_Witness ==
  /\ pc["A"] = "killed"
  /\ err["A"].at = "save_filters"
  /\ Len(StoredSongs(before["A"].metadata)) = 1
  /\ Len(StoredSongs(metadata_json)) = 2
  /\ filters_json = before["A"].filters
  /\ Get(StoredSongs(metadata_json)[2], K("language"))
       \notin StoredValues(filters_json, K("languages"))

BothDone == \A p \in Procs : pc[p] = "done"

\* The file holds exactly the text its last writer wrote.
CatalogIsLastWriters ==
  LET w == last_writer.metadata
  IN  /\ metadata_json.text = json_dump(loc[w].db)
      /\ StoredSongs(metadata_json)
           = Append(StoredSongs(seen[w].metadata), loc[w].song)
      /\ loc[Other(w)].song \notin Elems(StoredSongs(metadata_json))

FiltersAreLastWriters ==
  filters_json.text = json_dump(loc[last_writer.filters].filters)

\* The run of q began after the run of p had finished: both songs are there.
OneAfterTheOther ==
  \A p \in Procs :
    before[Other(p)].peers[p] = "done"
      => StoredSongs(metadata_json)
           = StoredSongs(before[p].metadata) \o <<loc[p].song, loc[Other(p)].song>>

====
